---- MODULE Spec2Model ----
(***************************************************************************)
(* Model of d.getipcinfo.rs: the IPC info query interface (snapshot cache, *)
(* access check, C exports, binder adapter) and the IPC monitoring system  *)
(* (ten relaxed atomic counters, the transaction hook, the sampler tick,   *)
(* the boot-time initialisation).                                          *)
(*                                                                         *)
(* Threads: one query caller (get_ipc_info and its wrappers, whose stores  *)
(* to the static GLOBAL_IPC_INFO are separate steps), the binder driver    *)
(* threads running monitor_transaction_hook (one step per atomic access),  *)
(* one thread running init_ipc_monitoring (one step per store), and the    *)
(* main loop's sample_ipc_stats (a single atomic fetch_add).               *)
(***************************************************************************)
EXTENDS Integers, Sequences, FiniteSets, TLC

\* ------------------------------------------------------------------- state

VARIABLES
    osServer,          \* crate::osserver::OS_SERVER as seen by the targeting resolver
    GLOBAL_IPC_INFO,   \* static mut GLOBAL_IPC_INFO (the singleton cache)
    INFO_CACHE,        \* static mut INFO_CACHE of the exported get_ipc_info
    q,                 \* the query caller: position, operation, locals, result
    txn,               \* the BinderTransaction handed to the binder adapter
    IPC_MONITOR,       \* static mut IPC_MONITOR (ten AtomicU32)
    BOOT_TIMESTAMP,    \* static mut BOOT_TIMESTAMP
    cntvct,            \* the hardware counter rdtsc reads; one tick per operation
    hookSlot,          \* the callback slot at 0x8000_4000
    hk,                \* per driver thread: position in monitor_transaction_hook
    ini,               \* the thread in init_ipc_monitoring: position, entry snapshot
    acct,              \* history: hook invocations since the last baseline
    kept               \* what callers keep after their calls returned

\* ------------------------------------------------------------------ bounds

\* Operations (calls of any entry point) started in one behaviour.
MaxOps == 3

\* ------------------------------------------------- constants of the program

\* A u32 (or the 32-bit usize of the ARMv7-A target) whose value may exceed
\* 2^31 - 1 is a word <<hi, lo>> of two 16-bit halves; its value is
\* hi * 65536 + lo. The ten counters, the magic numbers and the table base are
\* words; uids, sizes, page counts and versions are plain integers.
HALF == 65536

\* The word of a small non-negative integer.
W(n) == <<(n \div HALF) % HALF, n % HALF>>

\* Wrapping 32-bit addition of a small non-negative integer.
WAdd(w, n) == <<(w[1] + ((w[2] + n) \div HALF)) % HALF, (w[2] + n) % HALF>>

\* Unsigned comparison a < b.
WLess(a, b) == a[1] < b[1] \/ (a[1] = b[1] /\ a[2] < b[2])

\* Unsigned comparison a >= b + c of the exact (unwrapped) sum.
WGeqSum(a, b, c) ==
    LET D == a[1] - b[1] - c[1]
        d == a[2] - b[2] - c[2]
    IN  IF D >= 2 THEN TRUE
        ELSE IF D < 0 THEN FALSE
        ELSE D * HALF + d >= 0

WMax == <<HALF - 1, HALF - 1>>

\* crate::main constants, imported at line 16.
SYSTEM_UID == 1000
RADIO_UID == 1001
\* 0x4C554D4E
LUMEN_MAGIC == <<19541, 19790>>
MEM_PAGE_SIZE == 16384
\* 0xC0000000
KERNEL_BASE == <<49152, 0>>
\* "shamu"
NEXUS6_CODENAME == <<115, 104, 97, 109, 117>>

\* 0xDEADBEEF
INVALID_MAGIC == <<57005, 48879>>
IPC_VERSION == 65537
\* 0x4C495043
SERVER_PORT == <<19529, 20547>>
PAGES_MAPPED == 64
\* b"Global"
LOCK_GLOBAL == <<71, 108, 111, 98, 97, 108>>
TARGET_LEN == 64
LOCK_LEN == 16
EACCES == 0 - 13
LIPC_TARGET_MISMATCH == 0 - 99

\* The null pointer.
Null == "null"

\* An absent record (an Option that is None, a local not yet assigned).
None == [none |-> TRUE]

\* ------------------------------------------------------------ input domains

\* Requester uids: the two allowed principals, root, an app uid, the spec's 9999.
Uids == {SYSTEM_UID, RADIO_UID, 0, 9999}
\* Payload sizes of completed transactions (usize).
Sizes == {10, 42, 500}
\* Result codes of completed transactions (i32).
Errors == {0, EACCES, LIPC_TARGET_MISMATCH, 0 - 5}
\* Binder driver threads that may run the completion hook concurrently.
HookThreads == {1, 2}
\* State of crate::osserver::OS_SERVER: None, or Some(server) whose
\* validate_target(NEXUS6_CODENAME) answers true / false.
ServerStates == {"absent", "match", "mismatch"}
\* Content of a buffer the static initialiser leaves unspecified (line 61, 64).
FillBytes == {0, 170}

\* ----------------------------------------------------------- byte buffers

ZeroBuf(n) == [i \in 1..n |-> 0]

FillBuf(n, b) == [i \in 1..n |-> b]

\* Variant: the copy stops one byte short of the slice.
CopyPrefixShort(buf, s) ==
    [i \in 1..Len(buf) |-> IF i < Len(s) THEN s[i] ELSE buf[i]]

\* buf[..s.len()].copy_from_slice(s)
CopyPrefix(buf, s) == [i \in 1..Len(buf) |-> IF i <= Len(s) THEN s[i] ELSE buf[i]]

HasPrefix(buf, s) == Len(s) <= Len(buf) /\ \A i \in 1..Len(s) : buf[i] = s[i]

\* ----------------------------------------------------------------- records

\* size_of::<IPCInfo>() with repr(C) on the 32-bit target: nine 4-byte words,
\* the two byte arrays, the bool, padded to the 4-byte alignment.
Align4(n) == ((n + 3) \div 4) * 4

SizeOfIPCInfo == Align4(4 + 4 + 4 + 4 + TARGET_LEN + 4 + 4 + LOCK_LEN + 4 + 4 + 1)

GlobalInit(fill) ==
    [magic |-> LUMEN_MAGIC, version |-> IPC_VERSION, mem_page_size |-> MEM_PAGE_SIZE,
     uid_enforced |-> SYSTEM_UID, target_device |-> FillBuf(TARGET_LEN, fill),
     pages_mapped |-> 0, active_transactions |-> 0,
     lock_type |-> FillBuf(LOCK_LEN, fill),
     binder_handle |-> INVALID_MAGIC, server_port |-> SERVER_PORT, valid |-> FALSE]

InfoCacheInit ==
    [magic |-> LUMEN_MAGIC, version |-> IPC_VERSION, mem_page_size |-> MEM_PAGE_SIZE,
     uid_enforced |-> SYSTEM_UID, target_device |-> ZeroBuf(TARGET_LEN),
     pages_mapped |-> 0, active_transactions |-> 0,
     lock_type |-> ZeroBuf(LOCK_LEN),
     binder_handle |-> INVALID_MAGIC, server_port |-> SERVER_PORT, valid |-> FALSE]

invalid_ipc_info ==
    [magic |-> INVALID_MAGIC, version |-> 0, mem_page_size |-> 0,
     uid_enforced |-> 0, target_device |-> ZeroBuf(TARGET_LEN),
     pages_mapped |-> 0, active_transactions |-> 0,
     lock_type |-> ZeroBuf(LOCK_LEN),
     binder_handle |-> W(0), server_port |-> W(0), valid |-> FALSE]

\* Variant: the access check also lets uid 0 (root) through.
validate_uid_root(uid) == uid = SYSTEM_UID \/ uid = RADIO_UID \/ uid = 0

validate_uid(uid) == uid = SYSTEM_UID \/ uid = RADIO_UID

\* Variant: the page count is read from the singleton instead of being fixed.
get_ipc_paging_info_cached ==
    [page_size |-> MEM_PAGE_SIZE, pages_mapped |-> GLOBAL_IPC_INFO.pages_mapped,
     l1_table_base |-> WAdd(KERNEL_BASE, 16384),
     total_ipc_region |-> MEM_PAGE_SIZE * 64,
     cache_flags |-> 5, tlb_flushes |-> 0, valid |-> TRUE]

get_ipc_paging_info ==
    [page_size |-> MEM_PAGE_SIZE, pages_mapped |-> PAGES_MAPPED,
     l1_table_base |-> WAdd(KERNEL_BASE, 16384),
     total_ipc_region |-> MEM_PAGE_SIZE * 64,
     cache_flags |-> 5, tlb_flushes |-> 0, valid |-> TRUE]

\* b"Motorola Nexus 6 shamu", the text of the literal at line 102.
TARGET_LITERAL == <<77, 111, 116, 111, 114, 111, 108, 97, 32, 78, 101, 120, 117, 115, 32, 54, 32, 115, 104, 97, 109, 117>>

\* Variant: without a server the target is reported as not validated.
get_ipc_targeting_info_closed(server) ==
    [target_device |-> CopyPrefix(FillBuf(TARGET_LEN, 32), TARGET_LITERAL),
     allowed_uids |-> <<SYSTEM_UID, RADIO_UID, 0, 0, 0, 0, 0, 0>>,
     uid_count |-> 2,
     target_valid |-> server = "match",
     enforced |-> TRUE, lock_active |-> FALSE]

\* The literal is space-padded; the [u8; 64] field holds its first 64 bytes.
get_ipc_targeting_info(server) ==
    [target_device |-> CopyPrefix(FillBuf(TARGET_LEN, 32), TARGET_LITERAL),
     allowed_uids |-> <<SYSTEM_UID, RADIO_UID, 0, 0, 0, 0, 0, 0>>,
     uid_count |-> 2,
     target_valid |-> IF server = "absent" THEN TRUE ELSE server = "match",
     enforced |-> TRUE, lock_active |-> FALSE]

MonitorInit ==
    [transactions_total |-> W(0), pages_mapped_total |-> W(0),
     lock_contention |-> W(0), uid_violations |-> W(0), target_mismatches |-> W(0),
     tlb_flushes_total |-> W(0), max_transaction_size |-> W(0),
     avg_latency_ns |-> W(0), uptime_seconds |-> W(0), errors_total |-> W(0)]

\* Variant: the increment saturates at u32::MAX instead of wrapping.
FetchAdd1Saturating(v) == IF v = WMax THEN v ELSE WAdd(v, 1)

\* AtomicU32::fetch_add(1): wrapping.
FetchAdd1(v) == WAdd(v, 1)

\* ---------------------------------------------------- state, continued

vars == <<osServer, GLOBAL_IPC_INFO, INFO_CACHE, q, txn, IPC_MONITOR,
          BOOT_TIMESTAMP, cntvct, hookSlot, hk, ini, acct, kept>>

queryVars == <<osServer, GLOBAL_IPC_INFO, INFO_CACHE, q, txn, kept>>

monitorVars == <<IPC_MONITOR, BOOT_TIMESTAMP, hookSlot, hk, ini, acct>>

\* The query caller between calls. paging and targeting are the locals
\* paging_info and targeting_info, info the value the method returned, ret the
\* pointer the export returned, rc the adapter's status, pre the caches and the
\* transaction as they were when the call was made.
QIdle ==
    [pc |-> "idle", op |-> "none", uid |-> 0, paging |-> None, targeting |-> None,
     info |-> None, pre |-> None, ret |-> Null, rc |-> 0]

NoTxn == [sender_uid |-> 0, data_ptr |-> Null, data_size |-> 0]

HkIdle == [pc |-> "idle", size |-> 0, err |-> 0, pre |-> None]

\* slot is what the callback slot held when init_ipc_monitoring was entered.
IniIdle == [pc |-> "idle", pre |-> None, slot |-> Null]

\* Nothing kept yet. paging is the first IPCPagingInfo any call obtained, held
\* the pointer an unauthorized caller of the exported get_ipc_info still holds.
KeptNothing == [paging |-> None, held |-> Null]

\* History of the hook since a baseline: the counters at the baseline, the
\* invocations started, whether all of them had result code 0, whether two of
\* them overlapped, the largest of the baseline's maximum and their sizes, and
\* the sampler ticks since the baseline.
Baseline(mon) ==
    [base |-> mon, n |-> 0, clean |-> TRUE, overlap |-> FALSE,
     maxseen |-> mon.max_transaction_size, ticks |-> 0]

\* The state after the statics are constructed; the monitor starts from mon0.
InitFrom(servers, fills, mon0) ==
    /\ osServer \in servers
    /\ \E fill \in fills : GLOBAL_IPC_INFO = GlobalInit(fill)
    /\ INFO_CACHE = InfoCacheInit
    /\ q = QIdle
    /\ txn = NoTxn
    /\ IPC_MONITOR = mon0
    /\ BOOT_TIMESTAMP = 0
    /\ cntvct = 1
    /\ hookSlot = Null
    /\ hk = [t \in HookThreads |-> HkIdle]
    /\ ini = IniIdle
    /\ acct = Baseline(mon0)
    /\ kept = KeptNothing

Init == InitFrom(ServerStates, FillBytes, MonitorInit)

\* An entry point may be called: the model starts at most MaxOps operations.
CanCall == cntvct <= MaxOps

\* ------------------------------------------------- info queries (lines 70-252)

\* Where the caller of GetIPCInfo::get_ipc_info continues with the returned value.
AfterMethod(op) == IF op \in {"extern", "binder"} THEN "c_copy" ELSE "done"

\* The caches and the caller's transaction at the time of a call.
Entry(t) == [g |-> GLOBAL_IPC_INFO, c |-> INFO_CACHE, t |-> t]

\* GetIPCInfo::get_ipc_info up to its first store: the access check, the early
\* return of the sentinel, or the two resolver calls (both pure).
EnterMethod(op, uid, t) ==
    /\ cntvct' = cntvct + 1
    /\ q' = IF validate_uid(uid)
            THEN [QIdle EXCEPT !.pc = "g_pages", !.op = op, !.uid = uid,
                               !.paging = get_ipc_paging_info,
                               !.targeting = get_ipc_targeting_info(osServer),
                               !.pre = Entry(t)]
            ELSE [QIdle EXCEPT !.pc = AfterMethod(op), !.op = op, !.uid = uid,
                               !.info = invalid_ipc_info,
                               !.pre = Entry(t)]

\* A Rust caller invokes GetIPCInfo::get_ipc_info(uid).
CallMethod ==
    /\ q.pc = "idle" /\ CanCall
    /\ \E uid \in Uids : EnterMethod("method", uid, txn)
    /\ UNCHANGED <<osServer, kept, GLOBAL_IPC_INFO, INFO_CACHE, txn>>
    /\ UNCHANGED monitorVars

\* A C caller invokes the exported get_ipc_info(uid).
CallExtern ==
    /\ q.pc = "idle" /\ CanCall
    /\ \E uid \in Uids : EnterMethod("extern", uid, txn)
    /\ UNCHANGED <<osServer, kept, GLOBAL_IPC_INFO, INFO_CACHE, txn>>
    /\ UNCHANGED monitorVars

\* dump_ipc_info and init_ipc_info_cache: get_ipc_info(SYSTEM_UID), then printing.
CallDump ==
    /\ q.pc = "idle" /\ CanCall
    /\ \E op \in {"dump", "initcache"} : EnterMethod(op, SYSTEM_UID, txn)
    /\ UNCHANGED <<osServer, kept, GLOBAL_IPC_INFO, INFO_CACHE, txn>>
    /\ UNCHANGED monitorVars

\* A C caller invokes the exported get_ipc_paging_info().
CallPaging ==
    /\ q.pc = "idle" /\ CanCall
    /\ cntvct' = cntvct + 1
    /\ q' = [QIdle EXCEPT !.pc = "done", !.op = "paging",
                          !.paging = get_ipc_paging_info, !.pre = Entry(txn)]
    /\ UNCHANGED <<osServer, kept, GLOBAL_IPC_INFO, INFO_CACHE, txn>>
    /\ UNCHANGED monitorVars

\* A C caller invokes the exported get_ipc_targeting_info().
CallTargeting ==
    /\ q.pc = "idle" /\ CanCall
    /\ cntvct' = cntvct + 1
    /\ q' = [QIdle EXCEPT !.pc = "done", !.op = "targeting",
                          !.targeting = get_ipc_targeting_info(osServer),
                          !.pre = Entry(txn)]
    /\ UNCHANGED <<osServer, kept, GLOBAL_IPC_INFO, INFO_CACHE, txn>>
    /\ UNCHANGED monitorVars

\* GLOBAL_IPC_INFO.pages_mapped = paging_info.pages_mapped
StorePagesMapped ==
    /\ q.pc = "g_pages"
    /\ GLOBAL_IPC_INFO' =
           [GLOBAL_IPC_INFO EXCEPT !.pages_mapped = q.paging.pages_mapped]
    /\ q' = [q EXCEPT !.pc = "g_valid"]
    /\ UNCHANGED <<osServer, kept, INFO_CACHE, txn, cntvct>>
    /\ UNCHANGED monitorVars

\* GLOBAL_IPC_INFO.valid = true
StoreValid ==
    /\ q.pc = "g_valid"
    /\ GLOBAL_IPC_INFO' = [GLOBAL_IPC_INFO EXCEPT !.valid = TRUE]
    /\ q' = [q EXCEPT !.pc = "g_target"]
    /\ UNCHANGED <<osServer, kept, INFO_CACHE, txn, cntvct>>
    /\ UNCHANGED monitorVars

\* GLOBAL_IPC_INFO.target_device[..len].copy_from_slice(NEXUS6_CODENAME)
CopyTargetDevice ==
    /\ q.pc = "g_target"
    /\ GLOBAL_IPC_INFO' =
           [GLOBAL_IPC_INFO EXCEPT
               !.target_device = CopyPrefix(@, NEXUS6_CODENAME)]
    /\ q' = [q EXCEPT !.pc = "g_lock"]
    /\ UNCHANGED <<osServer, kept, INFO_CACHE, txn, cntvct>>
    /\ UNCHANGED monitorVars

\* GLOBAL_IPC_INFO.lock_type[..len].copy_from_slice(b"Global")
CopyLockType ==
    /\ q.pc = "g_lock"
    /\ GLOBAL_IPC_INFO' =
           [GLOBAL_IPC_INFO EXCEPT !.lock_type = CopyPrefix(@, LOCK_GLOBAL)]
    /\ q' = [q EXCEPT !.pc = "g_ret"]
    /\ UNCHANGED <<osServer, kept, INFO_CACHE, txn, cntvct>>
    /\ UNCHANGED monitorVars

\* The tail expression GLOBAL_IPC_INFO: the method returns a copy of the static.
ReadGlobal ==
    /\ q.pc = "g_ret"
    /\ q' = [q EXCEPT !.pc = AfterMethod(q.op), !.info = GLOBAL_IPC_INFO]
    /\ UNCHANGED <<osServer, kept, GLOBAL_IPC_INFO, INFO_CACHE, txn, cntvct>>
    /\ UNCHANGED monitorVars

\* The exported get_ipc_info: copy_nonoverlapping(&info, &mut INFO_CACHE, size_of)
\* and the return of &mut INFO_CACHE.
CopyToInfoCache ==
    /\ q.pc = "c_copy"
    /\ INFO_CACHE' = q.info
    /\ q' = [q EXCEPT !.pc = IF q.op = "binder" THEN "b_attach" ELSE "done",
                      !.ret = "INFO_CACHE"]
    /\ UNCHANGED <<osServer, kept, GLOBAL_IPC_INFO, txn, cntvct>>
    /\ UNCHANGED monitorVars

\* Variant: the two comparisons joined by || instead of &&.
BinderAllowedOr(uid) == ~(uid # SYSTEM_UID \/ uid # RADIO_UID)

\* The adapter's own check of the sender (line 233).
BinderAllowed(uid) == ~(uid # SYSTEM_UID /\ uid # RADIO_UID)

\* The driver dispatches a transaction to binder_get_ipc_info_handler.
CallBinder ==
    /\ q.pc = "idle" /\ CanCall
    /\ \E uid \in Uids, req \in {<<Null, 0>>, <<"request", 24>>} :
          LET t == [sender_uid |-> uid, data_ptr |-> req[1], data_size |-> req[2]]
          IN  /\ txn' = t
              /\ IF BinderAllowed(uid)
                    THEN EnterMethod("binder", uid, t)
                    ELSE /\ cntvct' = cntvct + 1
                         /\ q' = [QIdle EXCEPT !.pc = "done", !.op = "binder",
                                               !.uid = uid, !.rc = EACCES,
                                               !.pre = Entry(t)]
    /\ UNCHANGED <<osServer, kept, GLOBAL_IPC_INFO, INFO_CACHE>>
    /\ UNCHANGED monitorVars

\* txn.data_ptr = info_ptr; txn.data_size = size_of::<IPCInfo>(); return 0.
BinderAttach ==
    /\ q.pc = "b_attach"
    /\ txn' = [txn EXCEPT !.data_ptr = q.ret, !.data_size = SizeOfIPCInfo]
    /\ q' = [q EXCEPT !.pc = "done", !.rc = 0]
    /\ UNCHANGED <<osServer, kept, GLOBAL_IPC_INFO, INFO_CACHE, cntvct>>
    /\ UNCHANGED monitorVars

\* The caller has consumed the result; the thread is free for the next call.
QueryReturn ==
    /\ q.pc = "done"
    /\ q' = QIdle
    /\ txn' = NoTxn
    /\ kept' = [paging |-> IF kept.paging = None THEN q.paging ELSE kept.paging,
                held |-> IF q.op = "extern" /\ ~validate_uid(q.uid)
                         THEN q.ret ELSE kept.held]
    /\ UNCHANGED <<osServer, GLOBAL_IPC_INFO, INFO_CACHE, cntvct>>
    /\ UNCHANGED monitorVars

\* -------------------------------------------- IPC monitoring (lines 254-399)

\* History bookkeeping: a step of one thread on IPC_MONITOR ends the
\* "ran alone" snapshot of every other thread that is inside a call.
DisturbHooks(h, self) ==
    [t \in HookThreads |-> IF t = self THEN h[t] ELSE [h[t] EXCEPT !.pre = None]]

DisturbInit(i) == [i EXCEPT !.pre = None]

HooksIdle == \A t \in HookThreads : hk[t].pc = "idle"

\* Variant: only the two codes the match knows count as errors.
IsErrorKnown(err) == err = EACCES \/ err = LIPC_TARGET_MISMATCH

\* txn.return_error != 0
IsError(err) == err # 0

\* Variant: the two arms of the match exchanged.
ErrorClassSwapped(err) ==
    IF err = EACCES THEN "target_mismatches"
    ELSE IF err = LIPC_TARGET_MISMATCH THEN "uid_violations"
    ELSE Null

\* The match on txn.return_error: the counter of the error class, if any.
ErrorClass(err) ==
    IF err = EACCES THEN "uid_violations"
    ELSE IF err = LIPC_TARGET_MISMATCH THEN "target_mismatches"
    ELSE Null

\* Variant: the comparison turned around.
ExceedsMaxInverted(size, cur) == WLess(W(size), cur)

\* txn.data_size > max_transaction_size.load() as usize
ExceedsMax(size, cur) == WLess(cur, W(size))

\* txn.data_size as u32
AsU32(size) == W(size)

\* The driver threads are interchangeable: thread t takes a transaction only
\* while every thread before it is busy.
MayTake(t) == \A u \in HookThreads : u < t => hk[u].pc # "idle"

\* Variant: the hook also counts the transaction in the singleton's
\* active_transactions field.
HookCallCounting(t) ==
    /\ hk[t].pc = "idle" /\ CanCall /\ MayTake(t)
    /\ hk' = [DisturbHooks(hk, t) EXCEPT
                 ![t] = [HkIdle EXCEPT !.pc = "load_max", !.pre = IPC_MONITOR]]
    /\ acct' = [acct EXCEPT !.n = @ + 1,
                            !.overlap = @ \/ ~HooksIdle]
    /\ IPC_MONITOR' = [IPC_MONITOR EXCEPT !.transactions_total = FetchAdd1(@)]
    /\ ini' = DisturbInit(ini)
    /\ cntvct' = cntvct + 1
    /\ GLOBAL_IPC_INFO' = [GLOBAL_IPC_INFO EXCEPT !.active_transactions = @ + 1]
    /\ UNCHANGED <<BOOT_TIMESTAMP, hookSlot>>
    /\ UNCHANGED <<osServer, INFO_CACHE, q, txn, kept>>

\* monitor_transaction_hook is entered and does
\* IPC_MONITOR.transactions_total.fetch_add(1). The fields of the read-only
\* transaction are drawn where the hook first reads them.
HookCall(t) ==
    /\ hk[t].pc = "idle" /\ CanCall /\ MayTake(t)
    /\ hk' = [DisturbHooks(hk, t) EXCEPT
                 ![t] = [HkIdle EXCEPT !.pc = "load_max", !.pre = IPC_MONITOR]]
    /\ acct' = [acct EXCEPT !.n = @ + 1,
                            !.overlap = @ \/ ~HooksIdle]
    /\ IPC_MONITOR' = [IPC_MONITOR EXCEPT !.transactions_total = FetchAdd1(@)]
    /\ ini' = DisturbInit(ini)
    /\ cntvct' = cntvct + 1
    /\ UNCHANGED <<BOOT_TIMESTAMP, hookSlot>>
    /\ UNCHANGED queryVars

\* The load of max_transaction_size and the comparison with txn.data_size.
HookLoadMax(t) ==
    /\ hk[t].pc = "load_max"
    /\ \E size \in Sizes :
          /\ hk' = [hk EXCEPT ![t].size = size,
                              ![t].pc =
                    IF ExceedsMax(size, IPC_MONITOR.max_transaction_size)
                    THEN "store_max" ELSE "check_err"]
          /\ acct' = [acct EXCEPT !.maxseen = IF WLess(@, W(size)) THEN W(size) ELSE @]
    /\ UNCHANGED <<IPC_MONITOR, BOOT_TIMESTAMP, hookSlot, ini, cntvct>>
    /\ UNCHANGED queryVars

\* IPC_MONITOR.max_transaction_size.store(txn.data_size as u32)
HookStoreMax(t) ==
    /\ hk[t].pc = "store_max"
    /\ IPC_MONITOR' = [IPC_MONITOR EXCEPT !.max_transaction_size = AsU32(hk[t].size)]
    /\ hk' = [DisturbHooks(hk, t) EXCEPT ![t].pc = "check_err"]
    /\ ini' = DisturbInit(ini)
    /\ UNCHANGED <<BOOT_TIMESTAMP, hookSlot, acct, cntvct>>
    /\ UNCHANGED queryVars

\* if txn.return_error != 0 { IPC_MONITOR.errors_total.fetch_add(1) ... }
HookCheckError(t) ==
    /\ hk[t].pc = "check_err"
    /\ \E err \in Errors :
          IF IsError(err)
          THEN /\ IPC_MONITOR' = [IPC_MONITOR EXCEPT !.errors_total = FetchAdd1(@)]
               /\ hk' = [DisturbHooks(hk, t) EXCEPT
                            ![t].err = err,
                            ![t].pc = IF ErrorClass(err) = Null
                                      THEN "done" ELSE "add_class"]
               /\ ini' = DisturbInit(ini)
               /\ acct' = [acct EXCEPT !.clean = FALSE]
          ELSE /\ hk' = [hk EXCEPT ![t].err = err, ![t].pc = "done"]
               /\ UNCHANGED <<IPC_MONITOR, ini, acct>>
    /\ UNCHANGED <<BOOT_TIMESTAMP, hookSlot, cntvct>>
    /\ UNCHANGED queryVars

\* The fetch_add(1) of the matched arm: uid_violations or target_mismatches.
HookAddClass(t) ==
    /\ hk[t].pc = "add_class"
    /\ IPC_MONITOR' = [IPC_MONITOR EXCEPT ![ErrorClass(hk[t].err)] = FetchAdd1(@)]
    /\ hk' = [DisturbHooks(hk, t) EXCEPT ![t].pc = "done"]
    /\ ini' = DisturbInit(ini)
    /\ UNCHANGED <<BOOT_TIMESTAMP, hookSlot, acct, cntvct>>
    /\ UNCHANGED queryVars

\* The hook returns to the driver.
HookReturn(t) ==
    /\ hk[t].pc = "done"
    /\ hk' = [hk EXCEPT ![t] = HkIdle]
    /\ UNCHANGED <<IPC_MONITOR, BOOT_TIMESTAMP, hookSlot, ini, acct, cntvct>>
    /\ UNCHANGED queryVars

\* Variant: the sampler stores the time elapsed since BOOT_TIMESTAMP.
SampleTickElapsed ==
    /\ CanCall
    /\ IPC_MONITOR' = [IPC_MONITOR EXCEPT !.uptime_seconds = W(cntvct - BOOT_TIMESTAMP)]
    /\ hk' = DisturbHooks(hk, 0)
    /\ ini' = DisturbInit(ini)
    /\ cntvct' = cntvct + 1
    /\ acct' = [acct EXCEPT !.ticks = @ + 1]
    /\ UNCHANGED <<BOOT_TIMESTAMP, hookSlot>>
    /\ UNCHANGED queryVars

\* sample_ipc_stats: IPC_MONITOR.uptime_seconds.fetch_add(1)
SampleTick ==
    /\ CanCall
    /\ IPC_MONITOR' = [IPC_MONITOR EXCEPT !.uptime_seconds = FetchAdd1(@)]
    /\ hk' = DisturbHooks(hk, 0)
    /\ ini' = DisturbInit(ini)
    /\ cntvct' = cntvct + 1
    /\ acct' = [acct EXCEPT !.ticks = @ + 1]
    /\ UNCHANGED <<BOOT_TIMESTAMP, hookSlot>>
    /\ UNCHANGED queryVars

\* Variant: the fourth store zeroes uid_violations instead of errors_total.
ZeroedCountersOther ==
    <<"transactions_total", "pages_mapped_total", "lock_contention", "uid_violations">>

\* The counters init_ipc_monitoring zeroes, in the order of its stores.
ZeroedCounters ==
    <<"transactions_total", "pages_mapped_total", "lock_contention", "errors_total">>

\* Position of the store of the k-th zeroed counter.
ZeroPc(k) == <<"zero_1", "zero_2", "zero_3", "zero_4">>[k]

\* Variant: the callback is registered before the counters are zeroed.
InitOrderRegisterFirst ==
    <<"register", "zero_1", "zero_2", "zero_3", "zero_4", "done">>

\* The statements of init_ipc_monitoring after the write of BOOT_TIMESTAMP, in
\* program order: the four stores, register_monitor_callback, the return.
InitOrder == <<"zero_1", "zero_2", "zero_3", "zero_4", "register", "done">>

\* The position that follows pc in program order.
InitAfter(pc) == InitOrder[(CHOOSE i \in 1..Len(InitOrder) : InitOrder[i] = pc) + 1]

\* init_ipc_monitoring is entered: BOOT_TIMESTAMP = self.rdtsc()
InitCall ==
    /\ ini.pc = "idle" /\ CanCall
    /\ BOOT_TIMESTAMP' = cntvct
    /\ cntvct' = cntvct + 1
    /\ ini' = [pc |-> InitOrder[1], pre |-> IPC_MONITOR, slot |-> hookSlot]
    /\ acct' = [acct EXCEPT !.clean = FALSE]
    /\ UNCHANGED <<IPC_MONITOR, hookSlot, hk>>
    /\ UNCHANGED queryVars

\* IPC_MONITOR.<counter>.store(0), one store per step.
InitZero(k) ==
    /\ ini.pc = ZeroPc(k)
    /\ IPC_MONITOR' = [IPC_MONITOR EXCEPT ![ZeroedCounters[k]] = W(0)]
    /\ ini' = [ini EXCEPT !.pc = InitAfter(@)]
    /\ hk' = DisturbHooks(hk, 0)
    /\ UNCHANGED <<BOOT_TIMESTAMP, hookSlot, acct, cntvct>>
    /\ UNCHANGED queryVars

\* register_monitor_callback: write_volatile(0x8000_4000, monitor_transaction_hook)
InitRegister ==
    /\ ini.pc = "register"
    /\ hookSlot' = "monitor_transaction_hook"
    /\ ini' = [ini EXCEPT !.pc = InitAfter(@)]
    /\ UNCHANGED <<IPC_MONITOR, BOOT_TIMESTAMP, hk, acct, cntvct>>
    /\ UNCHANGED queryVars

\* dump_ipc_monitoring: get_ipc_stats and dump_monitoring_report, which reads
\* the clock and the counters and prints them.
DumpMonitoring ==
    /\ CanCall
    /\ cntvct' = cntvct + 1
    /\ UNCHANGED monitorVars
    /\ UNCHANGED queryVars

\* init_ipc_monitoring returns; with no hook in flight the accounting restarts.
InitReturn ==
    /\ ini.pc = "done"
    /\ ini' = IniIdle
    /\ acct' = IF HooksIdle THEN Baseline(IPC_MONITOR) ELSE acct
    /\ UNCHANGED <<IPC_MONITOR, BOOT_TIMESTAMP, hookSlot, hk, cntvct>>
    /\ UNCHANGED queryVars

\* ----------------------------------------------------------- specification

Next ==
    \/ CallMethod
    \/ CallExtern
    \/ CallDump
    \/ CallBinder
    \/ CallPaging
    \/ CallTargeting
    \/ DumpMonitoring
    \/ StorePagesMapped
    \/ StoreValid
    \/ CopyTargetDevice
    \/ CopyLockType
    \/ ReadGlobal
    \/ CopyToInfoCache
    \/ BinderAttach
    \/ QueryReturn
    \/ \E t \in HookThreads : HookCall(t)
    \/ \E t \in HookThreads : HookLoadMax(t)
    \/ \E t \in HookThreads : HookStoreMax(t)
    \/ \E t \in HookThreads : HookCheckError(t)
    \/ \E t \in HookThreads : HookAddClass(t)
    \/ \E t \in HookThreads : HookReturn(t)
    \/ SampleTick
    \/ InitCall
    \/ \E k \in 1..Len(ZeroedCounters) : InitZero(k)
    \/ InitRegister
    \/ InitReturn

Spec == Init /\ [][Next]_vars

\* The info queries alone (they share no variable with the monitoring system).
NextInfo ==
    \/ CallMethod
    \/ CallExtern
    \/ CallDump
    \/ CallBinder
    \/ CallPaging
    \/ CallTargeting
    \/ StorePagesMapped
    \/ StoreValid
    \/ CopyTargetDevice
    \/ CopyLockType
    \/ ReadGlobal
    \/ CopyToInfoCache
    \/ BinderAttach
    \/ QueryReturn

SpecInfo == Init /\ [][NextInfo]_vars

\* The info queries together with the monitoring operations that run after
\* start-up: one query caller, one driver thread in the hook, the sampler tick
\* and dump_ipc_monitoring, in every interleaving of their steps.
NextJoint ==
    \/ CallMethod
    \/ CallExtern
    \/ CallDump
    \/ CallBinder
    \/ CallPaging
    \/ CallTargeting
    \/ StorePagesMapped
    \/ StoreValid
    \/ CopyTargetDevice
    \/ CopyLockType
    \/ ReadGlobal
    \/ CopyToInfoCache
    \/ BinderAttach
    \/ QueryReturn
    \/ HookCall(1)
    \/ HookLoadMax(1)
    \/ HookStoreMax(1)
    \/ HookCheckError(1)
    \/ HookAddClass(1)
    \/ HookReturn(1)
    \/ SampleTick
    \/ DumpMonitoring

InitJoint == InitFrom({"mismatch"}, {170}, MonitorInit)

SpecJoint == InitJoint /\ [][NextJoint]_vars

\* Every entry point that calls get_ipc_paging_info or writes a static: the
\* exported wrapper, get_ipc_info as method and as export, dump_ipc_info and
\* init_ipc_info_cache, the binder adapter, one driver thread in the hook, the
\* sampler tick and init_ipc_monitoring, in every interleaving of their steps.
\* Left out are get_ipc_targeting_info and dump_ipc_monitoring, which do
\* neither, and the second driver thread.
NextPaging ==
    \/ CallPaging
    \/ CallMethod
    \/ CallExtern
    \/ CallDump
    \/ CallBinder
    \/ BinderAttach
    \/ StorePagesMapped
    \/ StoreValid
    \/ CopyTargetDevice
    \/ CopyLockType
    \/ ReadGlobal
    \/ CopyToInfoCache
    \/ QueryReturn
    \/ HookCall(1)
    \/ HookLoadMax(1)
    \/ HookStoreMax(1)
    \/ HookCheckError(1)
    \/ HookAddClass(1)
    \/ HookReturn(1)
    \/ SampleTick
    \/ InitCall
    \/ \E k \in 1..Len(ZeroedCounters) : InitZero(k)
    \/ InitRegister
    \/ InitReturn

SpecPaging == InitJoint /\ [][NextPaging]_vars

\* The monitoring system alone: the hook on the driver threads, the sampler
\* tick and init_ipc_monitoring, in every interleaving of their steps.
NextMonitor ==
    \/ \E t \in HookThreads : HookCall(t)
    \/ \E t \in HookThreads : HookLoadMax(t)
    \/ \E t \in HookThreads : HookStoreMax(t)
    \/ \E t \in HookThreads : HookCheckError(t)
    \/ \E t \in HookThreads : HookAddClass(t)
    \/ \E t \in HookThreads : HookReturn(t)
    \/ SampleTick
    \/ InitCall
    \/ \E k \in 1..Len(ZeroedCounters) : InitZero(k)
    \/ InitRegister
    \/ InitReturn

InitMonitor == InitFrom({"absent"}, {0}, MonitorInit)

SpecMonitor == InitMonitor /\ [][NextMonitor]_vars

\* The monitoring system after 2^32 - 2 completed transactions of size 0 and
\* result code 0: transactions_total is two increments from wrapping.
MonitorNearWrap == [MonitorInit EXCEPT !.transactions_total = <<HALF - 1, HALF - 2>>]

InitWrap == InitFrom({"absent"}, {0}, MonitorNearWrap)

SpecWrap == InitWrap /\ [][NextMonitor]_vars

\* The monitoring system after 2^32 - 1 sampler ticks: uptime_seconds is one
\* increment from wrapping.
MonitorTickNearWrap == [MonitorInit EXCEPT !.uptime_seconds = WMax]

InitTickWrap == InitFrom({"absent"}, {0}, MonitorTickNearWrap)

SpecTickWrap == InitTickWrap /\ [][NextMonitor]_vars

\* ------------------------------------------------------------- properties

\* The invalid sentinel, field by field.
IsSentinel(r) ==
    /\ r.valid = FALSE
    /\ r.magic = <<57005, 48879>>
    /\ r.version = 0
    /\ r.mem_page_size = 0
    /\ r.uid_enforced = 0
    /\ r.pages_mapped = 0
    /\ r.active_transactions = 0
    /\ r.binder_handle = <<0, 0>>
    /\ r.server_port = <<0, 0>>
    /\ Len(r.target_device) = 64 /\ \A i \in 1..64 : r.target_device[i] = 0
    /\ Len(r.lock_type) = 16 /\ \A i \in 1..16 : r.lock_type[i] = 0

Unauthorized(uid) == uid # SYSTEM_UID /\ uid # 1001

\* The query caller is in, or has just finished, a call of GetIPCInfo::get_ipc_info
\* or of the exported get_ipc_info (directly, not through the binder adapter).
InQuery == q.pc # "idle" /\ q.op \in {"method", "extern"}

\* C1: for every uid other than SYSTEM_UID and 1001, the snapshot that
\* GetIPCInfo::get_ipc_info(uid) returns is the invalid sentinel (valid false,
\* magic 0xDEADBEEF, every numeric field 0, both buffers zero-filled), whatever
\* ran before the call.
C1_UnauthorizedGetsSentinel ==
    (q.info # None /\ Unauthorized(q.uid)) => IsSentinel(q.info)

\* C1 witness: uid 9999 has been answered after a successful query filled the cache.
C1_Witness ==
    /\ q.pc = "done" /\ q.op = "method" /\ q.uid = 9999 /\ q.info # None
    /\ GLOBAL_IPC_INFO.valid

\* C2: an unauthorized query (a uid that is neither SYSTEM_UID nor 1001) leaves
\* GLOBAL_IPC_INFO and INFO_CACHE as they were before the call and invokes
\* neither resolver.
C2_Original ==
    (InQuery /\ Unauthorized(q.uid)) =>
        /\ GLOBAL_IPC_INFO = q.pre.g
        /\ INFO_CACHE = q.pre.c
        /\ q.paging = None /\ q.targeting = None

\* C3: for uid SYSTEM_UID or 1001, in every state of the OS server, the returned
\* snapshot has valid true, pages_mapped 64, a device-identity buffer that starts
\* with the configured identity, a lock type that starts with "Global", and the
\* singleton cache equals the returned snapshot after the call.
C3_AuthorizedGetsSnapshot ==
    (q.info # None /\ ~Unauthorized(q.uid)) =>
        /\ q.info.valid = TRUE
        /\ q.info.pages_mapped = 64
        /\ HasPrefix(q.info.target_device, NEXUS6_CODENAME)
        /\ HasPrefix(q.info.lock_type, <<71, 108, 111, 98, 97, 108>>)
        /\ GLOBAL_IPC_INFO = q.info

\* C3 witness: uid 1001 has been answered while the OS server reports a mismatch.
C3_Witness ==
    /\ q.pc = "done" /\ q.op = "method" /\ q.uid = 1001 /\ q.info # None
    /\ osServer = "mismatch" /\ q.targeting.target_valid = FALSE

\* C9: the binder adapter returns -13 exactly when sender_uid is neither
\* SYSTEM_UID nor 1001, and then has not invoked get_ipc_info and has left the
\* transaction's data_ptr and data_size and both caches unchanged; otherwise it
\* returns 0 with data_size = size_of::<IPCInfo>() (116) and data_ptr pointing at a
\* snapshot whose valid flag is true.
C9_BinderAdapter ==
    (q.pc = "done" /\ q.op = "binder") =>
        /\ (q.rc = 0 - 13) <=> Unauthorized(txn.sender_uid)
        /\ q.rc \in {0, 0 - 13}
        /\ q.rc = 0 - 13 =>
              /\ q.info = None /\ q.ret = Null /\ q.paging = None
              /\ txn = q.pre.t
              /\ GLOBAL_IPC_INFO = q.pre.g /\ INFO_CACHE = q.pre.c
        /\ q.rc = 0 =>
              /\ txn.data_size = 116
              /\ txn.data_ptr = "INFO_CACHE"
              /\ INFO_CACHE.valid = TRUE
              /\ ~IsSentinel(INFO_CACHE)

\* C9 witness: a transaction of uid 9999 carrying a request buffer was rejected
\* after an earlier query had filled both caches.
C9_Witness ==
    /\ q.pc = "done" /\ q.op = "binder" /\ q.rc = 0 - 13 /\ txn.sender_uid = 9999
    /\ txn.data_ptr = "request" /\ q.pre.c.valid /\ q.pre.g.valid

\* No hook invocation is between its entry and its last access to IPC_MONITOR.
HooksQuiet == \A t \in HookThreads : hk[t].pc \in {"idle", "done"}

\* Thread t has finished a hook invocation during which no other step touched
\* IPC_MONITOR; hk[t].pre is the counter bank at its entry.
RanAlone(t) == hk[t].pc = "done" /\ hk[t].pre # None

Counters ==
    {"transactions_total", "pages_mapped_total", "lock_contention", "uid_violations",
     "target_mismatches", "tlb_flushes_total", "max_transaction_size",
     "avg_latency_ns", "uptime_seconds", "errors_total"}

\* C4: after N hook invocations with result code 0, in any interleaving and with
\* no initialisation in between, transactions_total has grown by exactly N
\* modulo 2^32 and errors_total, uid_violations, target_mismatches are unchanged.
C4_SuccessfulHooksCounted ==
    (acct.clean /\ HooksQuiet) =>
        /\ IPC_MONITOR.transactions_total = WAdd(acct.base.transactions_total, acct.n)
        /\ IPC_MONITOR.errors_total = acct.base.errors_total
        /\ IPC_MONITOR.uid_violations = acct.base.uid_violations
        /\ IPC_MONITOR.target_mismatches = acct.base.target_mismatches

\* C4 witness: two overlapping successful invocations have completed and
\* transactions_total has wrapped from 2^32 - 2 to 0.
C4_Witness ==
    /\ acct.clean /\ HooksQuiet /\ acct.n = 2 /\ acct.overlap
    /\ acct.base.transactions_total = <<65535, 65534>>
    /\ IPC_MONITOR.transactions_total = <<0, 0>>

\* C5 as stated: one invocation with result code -13 increases uid_violations and
\* errors_total by 1 each and changes no other counter.
C5_Original ==
    \A t \in HookThreads :
        (RanAlone(t) /\ hk[t].err = 0 - 13) =>
            IPC_MONITOR = [hk[t].pre EXCEPT !.uid_violations = WAdd(@, 1),
                                            !.errors_total = WAdd(@, 1)]

\* C5 amended: one invocation with result code -13 increases uid_violations,
\* errors_total and transactions_total by 1 each, raises max_transaction_size to
\* the payload size when that is larger, and changes no other counter.
C5_AccessDeniedDelta ==
    \A t \in HookThreads :
        (RanAlone(t) /\ hk[t].err = 0 - 13) =>
            IPC_MONITOR =
                [hk[t].pre EXCEPT
                    !.uid_violations = WAdd(@, 1),
                    !.errors_total = WAdd(@, 1),
                    !.transactions_total = WAdd(@, 1),
                    !.max_transaction_size =
                        IF WLess(@, W(hk[t].size)) THEN W(hk[t].size) ELSE @]

\* C5 witness: an access-denied transaction of size 10 has been accounted, alone,
\* when the maximum was already 500 and one violation had been counted before.
C5_Witness ==
    \E t \in HookThreads :
        /\ RanAlone(t) /\ hk[t].err = 0 - 13 /\ hk[t].size = 10
        /\ hk[t].pre.max_transaction_size = <<0, 500>>
        /\ hk[t].pre.uid_violations = <<0, 1>>
        /\ IPC_MONITOR.uid_violations = <<0, 2>>

\* C6 as stated: errors_total >= uid_violations + target_mismatches in every
\* reachable state, a re-invocation of init_ipc_monitoring included.
C6_Original ==
    WGeqSum(IPC_MONITOR.errors_total, IPC_MONITOR.uid_violations,
            IPC_MONITOR.target_mismatches)

\* C7 as stated: while no initialisation is running, no step lowers any of the
\* ten counters, max_transaction_size included.
C7_Original ==
    [][(ini.pc = "idle" /\ ini'.pc = "idle") =>
          \A c \in Counters : ~WLess(IPC_MONITOR'[c], IPC_MONITOR[c])]_vars

\* C8: after hook invocations that ran one after the other with sizes s1..sk,
\* starting from max_transaction_size = m, max_transaction_size is
\* max(m, s1, ..., sk).
C8_SequentialMax ==
    (HooksQuiet /\ ~acct.overlap) => IPC_MONITOR.max_transaction_size = acct.maxseen

\* C8 witness: three invocations ran in sequence, the last with size 42, and the
\* maximum is the 500 of an earlier one.
C8_Witness ==
    /\ ~acct.overlap /\ acct.n = 3
    /\ hk[1].pc = "done" /\ hk[1].size = 42 /\ hk[2].pc = "idle"
    /\ IPC_MONITOR.max_transaction_size = <<0, 500>>
    /\ acct.maxseen = <<0, 500>>

\* C10: every step of init_ipc_monitoring leaves uid_violations,
\* target_mismatches, tlb_flushes_total, max_transaction_size, avg_latency_ns,
\* uptime_seconds and both snapshot caches unchanged, and once its four stores
\* are done (no other thread having touched the counters meanwhile) the bank is
\* the one at its entry with transactions_total, pages_mapped_total,
\* lock_contention and errors_total set to 0; on first and on later invocations.
C10_InitResetsFour ==
    [][ini'.pc # ini.pc =>
          /\ \A c \in {"uid_violations", "target_mismatches", "tlb_flushes_total",
                        "max_transaction_size", "avg_latency_ns", "uptime_seconds"} :
                 IPC_MONITOR'[c] = IPC_MONITOR[c]
          /\ GLOBAL_IPC_INFO' = GLOBAL_IPC_INFO
          /\ INFO_CACHE' = INFO_CACHE
          /\ (ini'.pc \in {"register", "done"} /\ ini'.pre # None) =>
                 IPC_MONITOR' = [ini'.pre EXCEPT !.transactions_total = <<0, 0>>,
                                                 !.pages_mapped_total = <<0, 0>>,
                                                 !.lock_contention = <<0, 0>>,
                                                 !.errors_total = <<0, 0>>]]_vars

\* C10 witness: a re-invocation (the hook slot is already written) has done its
\* four stores after an access-denied transaction: errors_total is back to 0,
\* uid_violations is still 1.
C10_Witness ==
    /\ ini.pc = "register" /\ hookSlot = "monitor_transaction_hook"
    /\ ini.pre # None /\ ini.pre.errors_total = <<0, 1>>
    /\ IPC_MONITOR.errors_total = <<0, 0>>
    /\ IPC_MONITOR.uid_violations = <<0, 1>>

\* C11: every sample_ipc_stats tick adds exactly 1 (modulo 2^32) to
\* uptime_seconds and changes no other counter, not BOOT_TIMESTAMP and neither
\* snapshot cache; after K ticks, interleaved with any steps of hooks and of
\* init_ipc_monitoring, uptime_seconds is its earlier value plus K.
C11_TickAddsOneSecond ==
    /\ [](IPC_MONITOR.uptime_seconds = WAdd(acct.base.uptime_seconds, acct.ticks))
    /\ [][acct'.ticks = acct.ticks + 1 =>
             /\ IPC_MONITOR'.uptime_seconds =
                   IF IPC_MONITOR.uptime_seconds = WMax
                   THEN <<0, 0>>
                   ELSE <<IPC_MONITOR.uptime_seconds[1]
                            + (IF IPC_MONITOR.uptime_seconds[2] = HALF - 1 THEN 1 ELSE 0),
                          (IPC_MONITOR.uptime_seconds[2] + 1) % HALF>>
             /\ \A c \in Counters \ {"uptime_seconds"} : IPC_MONITOR'[c] = IPC_MONITOR[c]
             /\ BOOT_TIMESTAMP' = BOOT_TIMESTAMP
             /\ GLOBAL_IPC_INFO' = GLOBAL_IPC_INFO
             /\ INFO_CACHE' = INFO_CACHE]_vars

\* Two ticks and a hook invocation since the baseline; uptime_seconds wrapped
\* from 2^32 - 1 through 0 to 1.
C11_Witness ==
    /\ acct.ticks = 2
    /\ acct.n = 1
    /\ IPC_MONITOR.uptime_seconds = <<0, 1>>
    /\ acct.base.uptime_seconds = WMax

\* C12: get_ipc_paging_info is state-independent: in every reachable state,
\* whatever hook, tick, init_ipc_monitoring or info-query steps ran before or
\* between, the record a call returns (to the exported wrapper or inside
\* get_ipc_info) and the record an earlier call returned are the same fixed
\* record: page size 16384, 64 pages, table base 0xC0004000, region 1048576,
\* cache flags 5, no TLB flushes, valid true; the region is page_size *
\* pages_mapped.
C12_PagingStateIndependent ==
    LET fixed == [page_size |-> 16384, pages_mapped |-> 64,
                  l1_table_base |-> <<49152, 16384>>,
                  total_ipc_region |-> 1048576,
                  cache_flags |-> 5, tlb_flushes |-> 0, valid |-> TRUE]
    IN  /\ q.paging # None =>
               /\ q.paging = fixed
               /\ q.paging.valid = TRUE
               /\ q.paging.total_ipc_region =
                      q.paging.page_size * q.paging.pages_mapped
        /\ kept.paging # None => kept.paging = fixed

\* The exported wrapper has returned a record after an earlier call returned
\* one: GetIPCInfo::get_ipc_info filled the singleton and left INFO_CACHE as
\* constructed, and init_ipc_monitoring wrote the timestamp, zeroed its
\* counters and registered the hook.
C12_Witness ==
    /\ q.op = "paging" /\ q.pc = "done"
    /\ kept.paging # None
    /\ GLOBAL_IPC_INFO.valid = TRUE /\ INFO_CACHE = InfoCacheInit
    /\ BOOT_TIMESTAMP # 0
    /\ hookSlot = "monitor_transaction_hook"

\* C13: while a successful get_ipc_info updates the singleton GLOBAL_IPC_INFO, a
\* concurrent reader sees the complete old or the complete new value: in no
\* reachable state has the singleton valid true while its device-identity or
\* lock-type buffer is not yet the one of the new snapshot.
C13_Original ==
    GLOBAL_IPC_INFO.valid = TRUE =>
        /\ HasPrefix(GLOBAL_IPC_INFO.target_device, NEXUS6_CODENAME)
        /\ HasPrefix(GLOBAL_IPC_INFO.lock_type, LOCK_GLOBAL)

\* C14: every snapshot record whose valid flag is false holds the sentinel
\* pattern (magic 0xDEADBEEF, numeric fields 0, buffers zero-filled) in every
\* reachable state, the initial GLOBAL_IPC_INFO and INFO_CACHE included.
C14_Original ==
    /\ GLOBAL_IPC_INFO.valid = FALSE => IsSentinel(GLOBAL_IPC_INFO)
    /\ INFO_CACHE.valid = FALSE => IsSentinel(INFO_CACHE)
    /\ (q.info # None /\ q.info.valid = FALSE) => IsSentinel(q.info)

\* C16: the uid_enforced field of the snapshot a successful get_ipc_info(uid)
\* returns equals the requester uid, for SYSTEM_UID and for 1001.
C16_Original ==
    (InQuery /\ q.pc = "done" /\ validate_uid(q.uid)) =>
        q.info.uid_enforced = q.uid

\* C15: one hook invocation with a non-zero result code adds 1 to
\* transactions_total and to errors_total, and also 1 to uid_violations exactly
\* when the code is -13 and 1 to target_mismatches exactly when it is -99 (any
\* other non-zero code changes neither); with result code 0 only
\* transactions_total, and max_transaction_size when the payload is larger,
\* change.
C15_ErrorClassification ==
    \A t \in HookThreads :
        RanAlone(t) =>
            LET pre == hk[t].pre
                err == hk[t].err
                One(b) == IF b THEN 1 ELSE 0
            IN  /\ IPC_MONITOR.transactions_total = WAdd(pre.transactions_total, 1)
                /\ IPC_MONITOR.errors_total = WAdd(pre.errors_total, One(err # 0))
                /\ IPC_MONITOR.uid_violations =
                       WAdd(pre.uid_violations, One(err = 0 - 13))
                /\ IPC_MONITOR.target_mismatches =
                       WAdd(pre.target_mismatches, One(err = 0 - 99))
                /\ IPC_MONITOR.max_transaction_size \in
                       {pre.max_transaction_size, W(hk[t].size)}
                /\ \A c \in Counters \ {"transactions_total", "errors_total",
                                         "uid_violations", "target_mismatches",
                                         "max_transaction_size"} :
                       IPC_MONITOR[c] = pre[c]

\* An invocation with the unclassified code -5 has been accounted, alone, after
\* an earlier target mismatch: errors_total went from 1 to 2 and the two
\* category counters stayed.
C15_Witness ==
    \E t \in HookThreads :
        /\ RanAlone(t) /\ hk[t].err = 0 - 5
        /\ hk[t].pre.errors_total = <<0, 1>> /\ IPC_MONITOR.errors_total = <<0, 2>>
        /\ hk[t].pre.target_mismatches = <<0, 1>>
        /\ IPC_MONITOR.target_mismatches = <<0, 1>>
        /\ IPC_MONITOR.uid_violations = <<0, 0>>

\* C17: get_ipc_targeting_info always returns a record and writes nothing: its
\* target_valid is true when OS_SERVER is absent and is the server's
\* validate_target result when it is present; uid_count is 2 (at most 8), the
\* first uid_count allow-list entries are exactly SYSTEM_UID and 1001, the uids
\* validate_uid accepts; enforced is true and lock_active is false.
C17_TargetingInfo ==
    q.targeting # None =>
        LET r == q.targeting
            listed == {r.allowed_uids[i] : i \in 1..r.uid_count}
        IN  /\ osServer = "absent" => r.target_valid = TRUE
            /\ osServer = "match" => r.target_valid = TRUE
            /\ osServer = "mismatch" => r.target_valid = FALSE
            /\ r.uid_count = 2 /\ r.uid_count <= Len(r.allowed_uids)
            /\ Len(r.allowed_uids) = 8
            /\ listed = {SYSTEM_UID, 1001}
            /\ \A u \in Uids \cup listed : validate_uid(u) <=> u \in listed
            /\ r.enforced = TRUE /\ r.lock_active = FALSE
            /\ q.op = "targeting" =>
                   /\ GLOBAL_IPC_INFO = q.pre.g
                   /\ INFO_CACHE = q.pre.c
                   /\ txn = q.pre.t

\* The exported wrapper has returned with no server installed, after an
\* earlier successful query filled the singleton.
C17_Witness ==
    /\ q.op = "targeting" /\ q.pc = "done"
    /\ osServer = "absent"
    /\ q.targeting.target_valid = TRUE
    /\ GLOBAL_IPC_INFO.valid = TRUE

\* C18: init_ipc_monitoring writes BOOT_TIMESTAMP and zeroes its four counters
\* before it registers the hook: whenever the callback slot is registered the
\* timestamp has been set, while a store of the initialisation is still pending
\* the slot holds what it held when the initialisation began (so a hook that
\* the driver dispatches then was enabled by an earlier registration), and at
\* the registration of an undisturbed initialisation the four counters are 0.
C18_InitBeforeRegistration ==
    /\ hookSlot # Null => BOOT_TIMESTAMP # 0
    /\ ini.pc \in {ZeroPc(k) : k \in 1..Len(ZeroedCounters)} \cup {"register"} =>
           hookSlot = ini.slot
    /\ (ini.pc = "register" /\ ini.pre # None) =>
           \A k \in 1..Len(ZeroedCounters) : IPC_MONITOR[ZeroedCounters[k]] = <<0, 0>>

\* The first initialisation has just registered the hook, after a hook
\* invocation that was called directly had counted a transaction which the
\* zeroing erased; the driver now dispatches a hook that is counted.
C18_Witness ==
    /\ ini.pc = "done" /\ ini.slot = Null
    /\ hookSlot = "monitor_transaction_hook"
    /\ BOOT_TIMESTAMP # 0
    /\ acct.n = 2
    /\ IPC_MONITOR.transactions_total = <<0, 1>>
    /\ \E t \in HookThreads : hk[t].pc = "load_max"

\* C19: the record behind the pointer that the exported get_ipc_info returned
\* to an unauthorized caller never holds privileged configuration: in every
\* later state, whatever calls other callers (authorized ones included) made,
\* it has valid false and the sentinel values.
C19_Original ==
    kept.held = "INFO_CACHE" => IsSentinel(INFO_CACHE)

\* C20: the monitoring state and the snapshot caches are independent: no step
\* of an info query (get_ipc_info with any uid, get_ipc_targeting_info,
\* get_ipc_paging_info, dump_ipc_info, the binder adapter) changes a counter of
\* IPC_MONITOR, and no step of monitor_transaction_hook, sample_ipc_stats or
\* dump_ipc_monitoring changes GLOBAL_IPC_INFO or INFO_CACHE.
C20_MonitorAndCacheIndependent ==
    [][/\ q' # q => \A c \in Counters : IPC_MONITOR'[c] = IPC_MONITOR[c]
       /\ (hk' # hk \/ IPC_MONITOR' # IPC_MONITOR \/ (cntvct' # cntvct /\ q' = q)) =>
              /\ GLOBAL_IPC_INFO' = GLOBAL_IPC_INFO
              /\ INFO_CACHE' = INFO_CACHE]_vars

\* An authorized query through the export has filled both caches while a hook
\* invocation with an error code and a sampler tick were counted.
C20_Witness ==
    /\ GLOBAL_IPC_INFO.valid = TRUE /\ INFO_CACHE.valid = TRUE
    /\ q.pc = "done" /\ q.op = "extern"
    /\ IPC_MONITOR.transactions_total = <<0, 1>>
    /\ IPC_MONITOR.errors_total = <<0, 1>>
    /\ IPC_MONITOR.uptime_seconds = <<0, 1>>

====
